---- MODULE Spec2Model ----
(***************************************************************************)
(* NMEA-0183 sentence decoder (gps.py, run.py).                            *)
(*                                                                         *)
(* A sentence is a Python str, modelled as a sequence of one-character     *)
(* strings.  A decode call is a pure function of the sentence; the state   *)
(* machine picks a sentence, then performs one call (a constructor of      *)
(* gps.py or the dispatcher of run.py) and records its outcome: the        *)
(* attributes of the constructed object, the exception raised, or None.    *)
(***************************************************************************)
EXTENDS Integers, Sequences, FiniteSets, TLC

VARIABLES
    parts,    \* the pieces the sentence was assembled from
    frame,    \* the str passed to the call
    called,   \* which callable was invoked ("none" before the call)
    result    \* outcome of the call

vars == <<parts, frame, called, result>>

---------------------------------------------------------------------------
(* Bounds of the input space *)

MaxFields == 19

---------------------------------------------------------------------------
(* Python primitives used by the source *)

\* s[a:b] for 0 <= a <= b: out-of-range bounds are clipped, never an error
PySlice(s, a, b) ==
    IF a >= Len(s) THEN <<>>
    ELSE [i \in 1..((IF b < Len(s) THEN b ELSE Len(s)) - a) |-> s[a + i]]

\* s[i] is defined only for i < len(s); otherwise IndexError
HasItem(s, i) == i < Len(s)
Item(s, i) == s[i + 1]

\* c in s
Contains(s, c) == \E i \in 1..Len(s) : s[i] = c

\* largest (1-based) index of c in s, 0 if absent
LastIndex(s, c) ==
    IF Contains(s, c)
    THEN CHOOSE i \in 1..Len(s) : s[i] = c /\ \A j \in (i+1)..Len(s) : s[j] # c
    ELSE 0

\* s.rpartition(c)[0]
RPartitionHead(s, c) ==
    IF Contains(s, c) THEN SubSeq(s, 1, LastIndex(s, c) - 1) ELSE <<>>

\* s.rpartition(c)[2]
RPartitionTail(s, c) ==
    IF Contains(s, c) THEN SubSeq(s, LastIndex(s, c) + 1, Len(s)) ELSE s

\* re.sub(r'[*$]', '', s)
IsMark(c) == c \in {"*", "$"}
ReSubMarks(s) == SelectSeq(s, LAMBDA c : ~IsMark(c))

\* s.split(sep): always at least one field, empty fields kept
RECURSIVE StrSplit(_, _)
StrSplit(s, sep) ==
    IF ~Contains(s, sep) THEN <<s>>
    ELSE LET k == CHOOSE i \in 1..Len(s) :
                      s[i] = sep /\ \A j \in 1..(i-1) : s[j] # sep
         IN  <<SubSeq(s, 1, k - 1)>> \o StrSplit(SubSeq(s, k + 1, Len(s)), sep)

---------------------------------------------------------------------------
(* class BaseGPS *)

START == "$"
END == "*"
SEP == ","

IDX_REC_ID_S == 0
IDX_REC_ID_E == 2
IDX_FRAME_TYPE_S == 2
IDX_FRAME_TYPE_E == 5

GGA == <<"G", "G", "A">>
GLL == <<"G", "L", "L">>
GSA == <<"G", "S", "A">>
GSV == <<"G", "S", "V">>
VTG == <<"V", "T", "G">>
RMC == <<"R", "M", "C">>

\* keys of BaseGPS.FRAME_TYPE
FRAME_TYPE == {GGA, GLL, GSA, GSV, VTG, RMC}

GPSFormatError(msg) == [kind |-> "GPSFormatError", message |-> msg]
GPSTypeError(msg) == [kind |-> "GPSTypeError", message |-> msg]
IndexError == [kind |-> "IndexError"]
None == [kind |-> "None"]

\* BaseGPS._split
_split_keepsuffix(fr) == StrSplit(ReSubMarks(fr), SEP)
_split(fr) ==
    LET f1 == IF Contains(fr, END) THEN RPartitionHead(fr, END) ELSE fr
    IN  StrSplit(ReSubMarks(f1), SEP)

\* BaseGPS.__init__
BaseGPS(fr) ==
    IF ~HasItem(fr, 0) THEN IndexError
    ELSE IF Item(fr, 0) # START THEN GPSFormatError("Lenght error")
    ELSE LET data == _split(fr)
         IN  [kind     |-> "record",
              cls      |-> "BaseGPS",
              data     |-> data,
              receiver |-> PySlice(Item(data, 0), IDX_REC_ID_S, IDX_REC_ID_E),
              type     |-> PySlice(Item(data, 0), IDX_FRAME_TYPE_S, IDX_FRAME_TYPE_E)]

---------------------------------------------------------------------------
(* class GPSGGA *)

GPSGGA_TYPE == GGA
GPSGGA_IDX_TIME == 1
GPSGGA_IDX_LAT == <<2, 4>>
GPSGGA_IDX_LONG == <<4, 6>>
GPSGGA_IDX_QUAL == 6
GPSGGA_IDX_SAT == 7
GPSGGA_IDX_ALT == <<8, 10>>

\* GPSGGA.__init__
GPSGGA(fr) ==
    LET base == BaseGPS(fr) IN
    IF base.kind # "record" THEN base
    ELSE IF base.type \notin FRAME_TYPE
    THEN IF base.type # GPSGGA_TYPE
         THEN GPSTypeError("not GGA type")
         ELSE GPSFormatError("type is not support")
    ELSE LET data == base.data IN
         IF \E i \in {GPSGGA_IDX_TIME, GPSGGA_IDX_QUAL, GPSGGA_IDX_SAT} : ~HasItem(data, i)
         THEN IndexError
         ELSE [kind       |-> "record",
               cls        |-> "GPSGGA",
               data       |-> data,
               receiver   |-> base.receiver,
               type       |-> base.type,
               time       |-> Item(data, GPSGGA_IDX_TIME),
               lattitude  |-> PySlice(data, GPSGGA_IDX_LAT[1], GPSGGA_IDX_LAT[2]),
               longitude  |-> PySlice(data, GPSGGA_IDX_LONG[1], GPSGGA_IDX_LONG[2]),
               quality    |-> Item(data, GPSGGA_IDX_QUAL),
               sattelites |-> Item(data, GPSGGA_IDX_SAT),
               altitude   |-> PySlice(data, GPSGGA_IDX_ALT[1], GPSGGA_IDX_ALT[2]),
               checksum   |-> RPartitionTail(fr, "*")]

---------------------------------------------------------------------------
(* class GPSGLL *)

GPSGLL_TYPE == GLL
GPSGLL_IDX_LAT == <<1, 3>>
GPSGLL_IDX_LONG == <<3, 5>>
GPSGLL_IDX_TIME == 5
GPSGLL_IDX_DATA == 6

\* GPSGLL.__init__ ; the data attribute is overwritten by the last field
GPSGLL(fr) ==
    LET base == BaseGPS(fr) IN
    IF base.kind # "record" THEN base
    ELSE IF base.type \notin FRAME_TYPE /\ Len(base.data) # 7
    THEN IF base.type # GPSGLL_TYPE
         THEN GPSTypeError("not GLL type")
         ELSE GPSFormatError("type is not support")
    ELSE LET data == base.data IN
         IF \E i \in {GPSGLL_IDX_TIME, GPSGLL_IDX_DATA} : ~HasItem(data, i)
         THEN IndexError
         ELSE [kind      |-> "record",
               cls       |-> "GPSGLL",
               receiver  |-> base.receiver,
               type      |-> base.type,
               lattitude |-> PySlice(data, GPSGLL_IDX_LAT[1], GPSGLL_IDX_LAT[2]),
               longitude |-> PySlice(data, GPSGLL_IDX_LONG[1], GPSGLL_IDX_LONG[2]),
               time      |-> Item(data, GPSGLL_IDX_TIME),
               data      |-> Item(data, GPSGLL_IDX_DATA)]

---------------------------------------------------------------------------
(* class GPSGSA *)

GPSGSA_TYPE == GSA
GPSGSA_IDX_MODE == 1
GPSGSA_IDX_FIX == 2
GPSGSA_IDX_SAT_IDS == <<3, 15>>
GPSGSA_IDX_PDOP == 15
GPSGSA_IDX_HDOP == 16
GPSGSA_IDX_VDOP == 17

\* GPSGSA.__init__
GPSGSA(fr) ==
    LET base == BaseGPS(fr) IN
    IF base.kind # "record" THEN base
    ELSE IF base.type \notin FRAME_TYPE
    THEN IF base.type # GPSGSA_TYPE
         THEN GPSTypeError("not GSA type")
         ELSE GPSFormatError("type is not support")
    ELSE LET data == base.data IN
         IF \E i \in {GPSGSA_IDX_MODE, GPSGSA_IDX_FIX, GPSGSA_IDX_PDOP,
                      GPSGSA_IDX_HDOP, GPSGSA_IDX_VDOP} : ~HasItem(data, i)
         THEN IndexError
         ELSE [kind       |-> "record",
               cls        |-> "GPSGSA",
               data       |-> data,
               receiver   |-> base.receiver,
               type       |-> base.type,
               mode       |-> Item(data, GPSGSA_IDX_MODE),
               fix        |-> Item(data, GPSGSA_IDX_FIX),
               satellites |-> PySlice(data, GPSGSA_IDX_SAT_IDS[1], GPSGSA_IDX_SAT_IDS[2]),
               pdop       |-> Item(data, GPSGSA_IDX_PDOP),
               hdop       |-> Item(data, GPSGSA_IDX_HDOP),
               vdop       |-> Item(data, GPSGSA_IDX_VDOP),
               checksum   |-> RPartitionTail(fr, "*")]

---------------------------------------------------------------------------
(* class GPSGSV *)

GPSGSV_TYPE == GSV
GPSGSV_IDX_NBRS == 1
GPSGSV_IDX_CUR_NBR == 2
GPSGSV_IDX_SAT == 3
GPSGSV_IDX_FIRST_SAT_ID == 4
GPSGSV_IDX_ELEV == 5
GPSGSV_IDX_AZIM == 6
GPSGSV_IDX_SIGN == 7

\* GPSGSV.__init__ ; IDX_SIGN is declared but no attribute is assigned from it
GPSGSV(fr) ==
    LET base == BaseGPS(fr) IN
    IF base.kind # "record" THEN base
    ELSE IF base.type \notin FRAME_TYPE
    THEN IF base.type # GPSGSV_TYPE
         THEN GPSTypeError("not GSV type")
         ELSE GPSFormatError("type is not support")
    ELSE LET data == base.data IN
         IF \E i \in {GPSGSV_IDX_NBRS, GPSGSV_IDX_CUR_NBR, GPSGSV_IDX_SAT,
                      GPSGSV_IDX_FIRST_SAT_ID, GPSGSV_IDX_ELEV, GPSGSV_IDX_AZIM} :
                ~HasItem(data, i)
         THEN IndexError
         ELSE [kind       |-> "record",
               cls        |-> "GPSGSV",
               data       |-> data,
               receiver   |-> base.receiver,
               type       |-> base.type,
               total      |-> Item(data, GPSGSV_IDX_NBRS),
               current    |-> Item(data, GPSGSV_IDX_CUR_NBR),
               satellites |-> Item(data, GPSGSV_IDX_SAT),
               first      |-> Item(data, GPSGSV_IDX_FIRST_SAT_ID),
               elevation  |-> Item(data, GPSGSV_IDX_ELEV),
               azimuth    |-> Item(data, GPSGSV_IDX_AZIM),
               checksum   |-> RPartitionTail(fr, "*")]

---------------------------------------------------------------------------
(* class GPSVTG *)

GPSVTG_TYPE == VTG
GPSVTG_IDX_TRACK_DEG == <<1, 3>>
GPSVTG_IDX_TRACK_MAGN == <<3, 5>>
GPSVTG_IDX_SPEED_KNOTS == <<5, 7>>
GPSVTG_IDX_SPEED_KMH == <<7, 9>>

\* GPSVTG.__init__ ; the inner comparison is against GPSGGA.TYPE in the source
GPSVTG(fr) ==
    LET base == BaseGPS(fr) IN
    IF base.kind # "record" THEN base
    ELSE IF base.type \notin FRAME_TYPE
    THEN IF base.type # GPSGGA_TYPE
         THEN GPSTypeError("not GGA type")
         ELSE GPSFormatError("type is not support")
    ELSE LET data == base.data IN
         [kind     |-> "record",
          cls      |-> "GPSVTG",
          data     |-> data,
          receiver |-> base.receiver,
          type     |-> base.type,
          dtrack   |-> PySlice(data, GPSVTG_IDX_TRACK_DEG[1], GPSVTG_IDX_TRACK_DEG[2]),
          mtrack   |-> PySlice(data, GPSVTG_IDX_TRACK_MAGN[1], GPSVTG_IDX_TRACK_MAGN[2]),
          nspeed   |-> PySlice(data, GPSVTG_IDX_SPEED_KNOTS[1], GPSVTG_IDX_SPEED_KNOTS[2]),
          kspeed   |-> PySlice(data, GPSVTG_IDX_SPEED_KMH[1], GPSVTG_IDX_SPEED_KMH[2])]

---------------------------------------------------------------------------
(* class GPSRMC *)

GPSRMC_TYPE == RMC
GPSRMC_IDX_HOUR == 1
GPSRMC_IDX_ALERT == 2
GPSRMC_IDX_LAT == <<3, 5>>
GPSRMC_IDX_LONG == <<5, 7>>
GPSRMC_IDX_SPEED_KNOTS == 7
GPSRMC_IDX_TRACK == 8
GPSRMC_IDX_DATE == 9
GPSRMC_IDX_MAGN_shifted == <<9, 11>>
GPSRMC_IDX_MAGN == <<10, 12>>

\* GPSRMC.__init__
GPSRMC(fr) ==
    LET base == BaseGPS(fr) IN
    IF base.kind # "record" THEN base
    ELSE IF base.type \notin FRAME_TYPE
    THEN IF base.type # GPSRMC_TYPE
         THEN GPSTypeError("not RMC type")
         ELSE GPSFormatError("type is not support")
    ELSE LET data == base.data IN
         IF \E i \in {GPSRMC_IDX_HOUR, GPSRMC_IDX_ALERT, GPSRMC_IDX_SPEED_KNOTS,
                      GPSRMC_IDX_TRACK, GPSRMC_IDX_DATE} : ~HasItem(data, i)
         THEN IndexError
         ELSE [kind      |-> "record",
               cls       |-> "GPSRMC",
               data      |-> data,
               receiver  |-> base.receiver,
               type      |-> base.type,
               hours     |-> Item(data, GPSRMC_IDX_HOUR),
               alert     |-> Item(data, GPSRMC_IDX_ALERT),
               latitude  |-> PySlice(data, GPSRMC_IDX_LAT[1], GPSRMC_IDX_LAT[2]),
               longitude |-> PySlice(data, GPSRMC_IDX_LONG[1], GPSRMC_IDX_LONG[2]),
               speed     |-> Item(data, GPSRMC_IDX_SPEED_KNOTS),
               track     |-> Item(data, GPSRMC_IDX_TRACK),
               date      |-> Item(data, GPSRMC_IDX_DATE),
               magnetic  |-> PySlice(data, GPSRMC_IDX_MAGN[1], GPSRMC_IDX_MAGN[2]),
               checksum  |-> RPartitionTail(fr, "*")]

---------------------------------------------------------------------------
(* class GPS (run.py) *)

\* the alphabet of the sentences considered
Digits == <<"0", "1", "2", "3", "4", "5", "6", "7", "8", "9">>
Chars == {"$", "*", ",", "G", "P", "I", "A", "L", "S", "V", "T", "R", "M", "C",
          "X", "Y", "Z", "N", "E"} \cup {Digits[i] : i \in 1..10}

\* isinstance(frame, str)
IsStr(fr) == fr \in Seq(Chars)

\* GPS.CLASSES: inspect.getmembers(module, isclass), sorted by name; the
\* classes bound in the module while the body of class GPS runs
CLASSES == <<"BaseGPS", "GPSFormatError", "GPSGGA", "GPSGLL", "GPSGSA",
             "GPSGSV", "GPSRMC", "GPSTypeError", "GPSVTG">>

\* issubclass(clss, BaseGPS)
IsSubclassOfBaseGPS(c) ==
    c \in {"BaseGPS", "GPSGGA", "GPSGLL", "GPSGSA", "GPSGSV", "GPSRMC", "GPSVTG"}

\* clss.TYPE
TYPE(c) ==
    CASE c = "GPSGGA" -> GPSGGA_TYPE
      [] c = "GPSGLL" -> GPSGLL_TYPE
      [] c = "GPSGSA" -> GPSGSA_TYPE
      [] c = "GPSGSV" -> GPSGSV_TYPE
      [] c = "GPSVTG" -> GPSVTG_TYPE
      [] c = "GPSRMC" -> GPSRMC_TYPE
      [] OTHER -> <<>>

\* clss(frame)
Construct(c, fr) ==
    CASE c = "BaseGPS" -> BaseGPS(fr)
      [] c = "GPSGGA" -> GPSGGA(fr)
      [] c = "GPSGLL" -> GPSGLL(fr)
      [] c = "GPSGSA" -> GPSGSA(fr)
      [] c = "GPSGSV" -> GPSGSV(fr)
      [] c = "GPSVTG" -> GPSVTG(fr)
      [] c = "GPSRMC" -> GPSRMC(fr)

\* GPS.getInstance
getInstance_returnbase(fr) ==
    IF ~IsStr(fr) THEN GPSFormatError("expected string parameter")
    ELSE LET base == BaseGPS(fr) IN
         IF base.kind # "record" THEN base
         ELSE LET hits == {k \in 1..Len(CLASSES) :
                              IsSubclassOfBaseGPS(CLASSES[k]) /\ base.type = TYPE(CLASSES[k])}
              IN  IF hits = {} THEN base
                  ELSE Construct(CLASSES[CHOOSE k \in hits : \A j \in hits : k <= j], fr)
getInstance(fr) ==
    IF ~IsStr(fr) THEN GPSFormatError("expected string parameter")
    ELSE LET base == BaseGPS(fr) IN
         IF base.kind # "record" THEN base
         ELSE LET hits == {k \in 1..Len(CLASSES) :
                              IsSubclassOfBaseGPS(CLASSES[k]) /\ base.type = TYPE(CLASSES[k])}
              IN  IF hits = {} THEN None
                  ELSE Construct(CLASSES[CHOOSE k \in hits : \A j \in hits : k <= j], fr)

---------------------------------------------------------------------------
(* The sentences fed to the decoder *)

\* decimal text of a field position
Num(i) ==
    IF i < 10 THEN <<Digits[i + 1]>>
    ELSE <<Digits[(i \div 10) + 1], Digits[(i % 10) + 1]>>

Patterns == {"digit", "pair", "marked"}

\* the text of field i, without start/end marks
FieldText(pat, i) ==
    CASE pat = "digit"  -> Num(i)
      [] pat = "pair"   -> IF i % 4 = 0 THEN <<>> ELSE Num(i) \o <<"N">>
      [] pat = "marked" -> Num(i) \o <<"E">>

\* field i as transmitted; the "marked" pattern carries a stray start mark
FieldAt(pat, i) ==
    IF pat = "marked" THEN <<"$">> \o FieldText(pat, i) ELSE FieldText(pat, i)

Starts == {<<"$">>, <<>>, <<"G">>, <<"*">>}

Headers ==
    {<<"G", "P">> \o t : t \in FRAME_TYPE} \cup
    {<<"I", "I">> \o RMC, <<"G", "P">> \o GGA \o <<"X">>,
     <<"G", "P", "X", "Y", "Z">>, <<"G", "P", "G", "G">>, <<"G", "P", "G">>,
     <<"G", "P">>, <<"G">>, <<>>}

\* checksum suffixes holding no further end mark
ChecksumTexts == {<<>>, <<"4", "2">>, <<"4", ",", "2">>}
Suffixes ==
    {<<>>, <<"*", "4", "*", "2">>} \cup {<<"*">> \o c : c \in ChecksumTexts}

Inputs ==
    [start : Starts, hdr : Headers, n : 0..MaxFields, pat : Patterns, sfx : Suffixes]

RECURSIVE Body(_, _)
Body(pat, n) ==
    IF n = 0 THEN <<>> ELSE Body(pat, n - 1) \o <<",">> \o FieldAt(pat, n)

Render(p) == p.start \o p.hdr \o Body(p.pat, p.n) \o p.sfx

---------------------------------------------------------------------------
(* State machine: one sentence, one call *)

Pending == [kind |-> "pending"]

Decoders == {"GPSGGA", "GPSGLL", "GPSGSA", "GPSGSV", "GPSVTG", "GPSRMC"}

Init ==
    /\ parts \in Inputs
    /\ frame = Render(parts)
    /\ called = "none"
    /\ result = Pending

CallBaseGPS ==
    /\ called = "none"
    /\ called' = "BaseGPS"
    /\ result' = BaseGPS(frame)
    /\ UNCHANGED <<parts, frame>>

CallGPSGGA ==
    /\ called = "none"
    /\ called' = "GPSGGA"
    /\ result' = GPSGGA(frame)
    /\ UNCHANGED <<parts, frame>>

CallGPSGLL ==
    /\ called = "none"
    /\ called' = "GPSGLL"
    /\ result' = GPSGLL(frame)
    /\ UNCHANGED <<parts, frame>>

CallGPSGSA ==
    /\ called = "none"
    /\ called' = "GPSGSA"
    /\ result' = GPSGSA(frame)
    /\ UNCHANGED <<parts, frame>>

CallGPSGSV ==
    /\ called = "none"
    /\ called' = "GPSGSV"
    /\ result' = GPSGSV(frame)
    /\ UNCHANGED <<parts, frame>>

CallGPSVTG ==
    /\ called = "none"
    /\ called' = "GPSVTG"
    /\ result' = GPSVTG(frame)
    /\ UNCHANGED <<parts, frame>>

CallGPSRMC ==
    /\ called = "none"
    /\ called' = "GPSRMC"
    /\ result' = GPSRMC(frame)
    /\ UNCHANGED <<parts, frame>>

CallGetInstance ==
    /\ called = "none"
    /\ called' = "getInstance"
    /\ result' = getInstance(frame)
    /\ UNCHANGED <<parts, frame>>

Next ==
    \/ CallBaseGPS
    \/ CallGPSGGA
    \/ CallGPSGLL
    \/ CallGPSGSA
    \/ CallGPSGSV
    \/ CallGPSVTG
    \/ CallGPSRMC
    \/ CallGetInstance

Spec == Init /\ [][Next]_vars

---------------------------------------------------------------------------
(* Vocabulary of the properties *)

Done == called # "none"

BeginsWithStart == Len(frame) > 0 /\ frame[1] = "$"

\* the FieldSequence of the sentence and its positions (0 = header field)
Fields == _split(frame)
At(p) == Fields[p + 1]
Range(a, b) == [i \in 1..(b - a) |-> Fields[a + i]]

HeaderField == Fields[1]
SentenceType == [i \in 1..((IF Len(HeaderField) < 5 THEN Len(HeaderField) ELSE 5) - 2) |->
                    HeaderField[2 + i]]

\* the decoder registered for a tag
DecoderOf(t) ==
    CASE t = GGA -> "GPSGGA"
      [] t = GLL -> "GPSGLL"
      [] t = GSA -> "GPSGSA"
      [] t = GSV -> "GPSGSV"
      [] t = VTG -> "GPSVTG"
      [] t = RMC -> "GPSRMC"
      [] OTHER -> "none"

TypeOK ==
    /\ parts \in Inputs
    /\ frame = Render(parts)
    /\ called \in {"none", "BaseGPS", "getInstance"} \cup Decoders
    /\ result.kind \in {"pending", "record", "None", "GPSFormatError", "GPSTypeError", "IndexError"}
    /\ (called = "none") = (result = Pending)

---------------------------------------------------------------------------
(* Properties *)

\* C1: every string that does not begin with "$" (the empty string
\* included) ends in GPSFormatError, whichever constructor or the dispatcher
\* is called.
C1_NoStartMarkIsFormatError ==
    (Done /\ ~BeginsWithStart) => result.kind = "GPSFormatError"

\* C2: a decoder invoked directly on a "$" sentence whose type is one of the
\* six known tags but not the decoder's own yields GPSTypeError.
C2_MismatchedKnownTagIsTypeError ==
    (/\ called \in Decoders
     /\ BeginsWithStart
     /\ SentenceType \in FRAME_TYPE
     /\ DecoderOf(SentenceType) # called)
    => result.kind = "GPSTypeError"

\* C3: a decoder invoked directly on a "$" sentence whose type is none of the
\* six known tags yields GPSFormatError, whatever the number of fields.
C3_UnknownTagIsFormatError ==
    (/\ called \in Decoders
     /\ BeginsWithStart
     /\ SentenceType \notin FRAME_TYPE)
    => result.kind = "GPSFormatError"

\* C4: for a "$" sentence whose header field holds the five header
\* characters and whose type is none of the six registered tags, the
\* dispatcher returns the empty result: no record, no error.
C4_Case ==
    /\ called = "getInstance"
    /\ BeginsWithStart
    /\ Len(HeaderField) >= 5
    /\ SentenceType \notin FRAME_TYPE

C4_UnregisteredTagReturnsNone == C4_Case => result = None

C4_Witness == C4_Case /\ parts.n > 0 /\ result = None

\* C5: with a body free of "*", the FieldSequence of "$body*c" (c free of
\* "*") is the FieldSequence of "$body": the header field followed by the
\* body's fields in order, empty ones kept, and nothing from the suffix.
ExpectedFields == <<parts.hdr>> \o [i \in 1..parts.n |-> FieldText(parts.pat, i)]

C5_Case ==
    /\ called = "BaseGPS"
    /\ parts.start = <<"$">>
    /\ parts.sfx \in {<<>>} \cup {<<"*">> \o c : c \in ChecksumTexts}

C5_SplitIgnoresChecksum ==
    C5_Case =>
        /\ result.kind = "record"
        /\ result.data = ExpectedFields
        /\ parts.sfx = <<>> =>
              \A c \in ChecksumTexts : _split(frame \o <<"*">> \o c) = result.data

C5_Witness ==
    /\ C5_Case
    /\ parts.sfx = <<"*", "4", "2">>
    /\ parts.pat = "pair"
    /\ parts.n >= 4
    /\ result.data = ExpectedFields
    /\ result.data[5] = <<>>

\* C6: a "$" sentence whose header field has fewer than five characters
\* fails with GPSFormatError.
C6_ShortHeaderIsFormatError ==
    (Done /\ BeginsWithStart /\ Len(HeaderField) < 5)
    => result.kind = "GPSFormatError"

\* C7: for T among GGA, GLL, GSA, VTG, RMC the dispatcher, given a "$xxT"
\* sentence, returns a record of type T whose receiver is characters [0,2)
\* of field 0 and whose named fields are the raw fields at the positions of
\* the field position table.
C7_Dispatched(t) ==
    /\ called = "getInstance"
    /\ BeginsWithStart
    /\ SentenceType = t

C7_IsRecord(t) ==
    /\ result.kind = "record"
    /\ result.cls = DecoderOf(t)
    /\ result.type = t
    /\ result.receiver = SubSeq(HeaderField, 1, 2)

C7_GGA ==
    /\ C7_IsRecord(GGA)
    /\ result.time = At(1)
    /\ result.lattitude = Range(2, 4)
    /\ result.longitude = Range(4, 6)
    /\ result.quality = At(6)
    /\ result.sattelites = At(7)
    /\ result.altitude = Range(8, 10)

C7_GLL ==
    /\ C7_IsRecord(GLL)
    /\ result.lattitude = Range(1, 3)
    /\ result.longitude = Range(3, 5)
    /\ result.time = At(5)
    /\ result.data = At(6)

C7_GSA ==
    /\ C7_IsRecord(GSA)
    /\ result.mode = At(1)
    /\ result.fix = At(2)
    /\ result.satellites = Range(3, 15)
    /\ result.pdop = At(15)
    /\ result.hdop = At(16)
    /\ result.vdop = At(17)

C7_VTG ==
    /\ C7_IsRecord(VTG)
    /\ result.dtrack = Range(1, 3)
    /\ result.mtrack = Range(3, 5)
    /\ result.nspeed = Range(5, 7)
    /\ result.kspeed = Range(7, 9)

C7_RMC ==
    /\ C7_IsRecord(RMC)
    /\ result.hours = At(1)
    /\ result.alert = At(2)
    /\ result.latitude = Range(3, 5)
    /\ result.longitude = Range(5, 7)
    /\ result.speed = At(7)
    /\ result.track = At(8)
    /\ result.date = At(9)
    /\ result.magnetic = Range(10, 12)

\* C7 as stated: it is enough that the FieldSequence has as many fields as
\* the highest position the table gives for T.
C7_AsManyFieldsAsHighestPosition ==
    /\ (C7_Dispatched(GGA) /\ Len(Fields) >= 10) => C7_GGA
    /\ (C7_Dispatched(GLL) /\ Len(Fields) >= 6) => C7_GLL
    /\ (C7_Dispatched(GSA) /\ Len(Fields) >= 17) => C7_GSA
    /\ (C7_Dispatched(VTG) /\ Len(Fields) >= 9) => C7_VTG
    /\ (C7_Dispatched(RMC) /\ Len(Fields) >= 12) => C7_RMC

\* C7 amended: the FieldSequence holds every position of T's row, i.e. has
\* more fields than the highest index read (GGA 10, GLL 7, GSA 18, VTG 9,
\* RMC 12 fields).
C7_FieldsAtTablePositions ==
    /\ (C7_Dispatched(GGA) /\ Len(Fields) >= 10) => C7_GGA
    /\ (C7_Dispatched(GLL) /\ Len(Fields) >= 7) => C7_GLL
    /\ (C7_Dispatched(GSA) /\ Len(Fields) >= 18) => C7_GSA
    /\ (C7_Dispatched(VTG) /\ Len(Fields) >= 9) => C7_VTG
    /\ (C7_Dispatched(RMC) /\ Len(Fields) >= 12) => C7_RMC

C7_Witness ==
    /\ C7_Dispatched(RMC)
    /\ Len(Fields) = 12
    /\ parts.pat = "pair"
    /\ C7_RMC
    /\ result.magnetic = <<<<"1", "0", "N">>, <<"1", "1", "N">>>>

\* C8: a GSV sentence with at least 8 fields decodes to a record exposing
\* the seven named fields of the table, signalStrength (field 7) included.
C8_NamedAttrs ==
    {"total", "current", "satellites", "first", "elevation", "azimuth"}

C8_GSVExposesSevenFields ==
    (/\ called \in {"GPSGSV", "getInstance"}
     /\ BeginsWithStart
     /\ SentenceType = GSV
     /\ Len(Fields) >= 8)
    => /\ result.kind = "record"
       /\ result.total = At(1)
       /\ result.current = At(2)
       /\ result.satellites = At(3)
       /\ result.first = At(4)
       /\ result.elevation = At(5)
       /\ result.azimuth = At(6)
       /\ \E a \in DOMAIN result \ (C8_NamedAttrs \cup
                    {"kind", "cls", "data", "receiver", "type", "checksum"}) :
              result[a] = At(7)

\* C9: a sentence of type T whose FieldSequence is shorter than T's highest
\* required position fails with GPSFormatError, decoded directly or through
\* the dispatcher.
C9_HighestPosition(t) ==
    CASE t = GGA -> 9
      [] t = GLL -> 6
      [] t = GSA -> 17
      [] t = GSV -> 7
      [] t = VTG -> 8
      [] t = RMC -> 11

C9_TruncatedIsFormatError ==
    (/\ BeginsWithStart
     /\ SentenceType \in FRAME_TYPE
     /\ called \in {DecoderOf(SentenceType), "getInstance"}
     /\ Len(Fields) < C9_HighestPosition(SentenceType))
    => result.kind = "GPSFormatError"

\* C10: a record of the GGA, GSA, GSV or RMC decoder carries as checksum the
\* text after the last "*" of the sentence, and no text at all when the
\* sentence has no "*".
C10_ChecksumIsSuffixOrEmpty ==
    (result.kind = "record" /\ result.cls \in {"GPSGGA", "GPSGSA", "GPSGSV", "GPSRMC"})
    => IF \E i \in 1..Len(frame) : frame[i] = "*"
       THEN \E i \in 1..Len(frame) :
                /\ frame[i] = "*"
                /\ \A j \in (i + 1)..Len(frame) : frame[j] # "*"
                /\ result.checksum = [k \in 1..(Len(frame) - i) |-> frame[i + k]]
       ELSE result.checksum = <<>>

====
